---- MODULE Spec2Model ----
(***************************************************************************)
(* The connection broker of the browser extension (class                   *)
(* TabShareExtension): the pending-selection map, the active-connection    *)
(* map, the legacy "last connected tab" scalar, the inactivity timers and  *)
(* the badges, driven by RPC messages, tab lifecycle events, timers and    *)
(* relay links closing.                                                    *)
(*                                                                         *)
(* Scheduling is the event loop's: a handler runs without interruption up  *)
(* to an awaited host call, where it is parked in `tasks`; a parked task   *)
(* resumes in a later step, in any order with respect to other tasks and   *)
(* events.  A host call takes effect when it is issued (calls reach the    *)
(* host in program order); what is awaited is only its completion.  The    *)
(* badge is modelled by its text: _updateBadge issues setBadgeText when it *)
(* is called and then only awaits (setTitle, setBadgeBackgroundColor), so  *)
(* its further awaits are folded into the one suspension of its caller.    *)
(***************************************************************************)
EXTENDS Integers, Sequences, FiniteSets, Bags, TLC

\* ---- bounds of the model ------------------------------------------------
NumTabs == 2
MaxLinks == 3
MaxTasks == 2
MaxTimers == 1

\* the tabs that take part in selections, and any other tab of the browser,
\* which only ever shows up as the focused tab of an activation
Tabs == 1..NumTabs
Elsewhere == NumTabs + 1
\* the links and parked handlers of the requests-only specification
\* RaceSpec, one more of each
RaceLinks == MaxLinks + 1
RaceTasks == MaxTasks + 1
Links == 1..RaceLinks
Null == 0

VARIABLES
  closedTabs,           \* host: tabs that have been closed (ids are not reused)
  nextLink,             \* number of RelayConnection objects constructed so far
  links,                \* per RelayConnection: closed flag and installed onclose
  pendingTabSelection,  \* Map selectorTabId -> {connection, timerId}, in insertion order
  activeConnections,    \* Map tabId -> connection, in insertion order
  lastConnectedTabId,   \* number | null
  timers,               \* armed setTimeout callbacks: the (tabId, pending) they captured
  badge,                \* host: badge text per tab
  tasks                 \* bag of handlers parked at an await

vars == <<closedTabs, nextLink, links, pendingTabSelection, activeConnections,
          lastConnectedTabId, timers, badge, tasks>>

\* ---- what a handler step shows: the branch it took (ev) and the calls it
\* issued, in order (out); both live in the step's result, not in the state
Eff(op, tab, conn, text) == [op |-> op, tab |-> tab, conn |-> conn, text |-> text]
Ev(name, phase, sel, tabId, conn, existing) ==
  [name |-> name, phase |-> phase, sel |-> sel, tabId |-> tabId,
   conn |-> conn, existing |-> existing]

\* ---- parked handlers ----------------------------------------------------
\* pc: the await it is parked at; idx: a for-of iterator's position; hostOk:
\* whether the awaited host calls can succeed; error: the error being thrown;
\* seen: history kept for a parked disconnect-all, the links that have been
\* in the active map since it was called
Task(pc, sel, tabId, idx, hostOk, error) ==
  [pc |-> pc, sel |-> sel, tabId |-> tabId, idx |-> idx,
   hostOk |-> hostOk, error |-> error, seen |-> {}]

\* ---- the two maps (JavaScript Map: one entry per key, insertion order) ---
Keys(m) == {m[i].tabId : i \in 1..Len(m)}
Has(m, k) == k \in Keys(m)
IndexOf(m, k) == CHOOSE i \in 1..Len(m) : m[i].tabId = k
Get(m, k) == IF Has(m, k) THEN m[IndexOf(m, k)] ELSE [tabId |-> Null, connection |-> Null, timerId |-> FALSE]
RemoveAt(m, i) == [j \in 1..(Len(m) - 1) |-> IF j < i THEN m[j] ELSE m[j + 1]]
MapDelete(m, k) == IF Has(m, k) THEN RemoveAt(m, IndexOf(m, k)) ELSE m
MapSet(m, k, rec) == IF Has(m, k) THEN [m EXCEPT ![IndexOf(m, k)] = rec] ELSE Append(m, rec)
MapValues(m) == {m[i].connection : i \in 1..Len(m)}

PendingRec(tabId, connection, timerId) ==
  [tabId |-> tabId, connection |-> connection, timerId |-> timerId]
ActiveRec(tabId, connection) ==
  [tabId |-> tabId, connection |-> connection, timerId |-> FALSE]

\* ---- the broker's state as one value, threaded through a handler step ----
NoEv == Ev("none", "", Null, Null, Null, Null)
St == [links |-> links, pending |-> pendingTabSelection, active |-> activeConnections,
       last |-> lastConnectedTabId, timers |-> timers, badge |-> badge,
       tasks |-> tasks, closed |-> closedTabs, ev |-> NoEv, out |-> <<>>]

Emit(s, e) == [s EXCEPT !.out = Append(@, e)]
Park(s, t) == [s EXCEPT !.tasks = @ (+) SetToBag({t})]
Unpark(s, t) == [s EXCEPT !.tasks = @ (-) SetToBag({t})]
Observe(s, e) == [s EXCEPT !.ev = e]
Respond(s, tabId, text) == Emit(s, Eff("sendResponse", tabId, Null, text))

\* ---- RelayConnection and the callbacks the broker installs on it ---------
\* this._pendingTabSelection.delete(selectorTabId)
PendingOnClose(s, selectorTabId) ==
  [s EXCEPT !.pending = MapDelete(@, selectorTabId)]

\* chrome.action.setBadgeText({tabId, text}); a closed tab rejects, which is ignored
UpdateBadge(s, tabId, text) ==
  Emit([s EXCEPT !.badge[tabId] = IF tabId \in s.closed THEN @ ELSE text],
       Eff("setBadgeText", tabId, Null, text))

\* variant: the connected indicator is never shown
AddConnectedTabNoBadge(s, tabId) == s
AddConnectedTab(s, tabId) == UpdateBadge(s, tabId, "ok")

\* _removeConnectedTab up to its await, and from its await on
RemoveConnectedTabCall(s, tabId) == UpdateBadge(s, tabId, "")
LastKey(m) == IF Len(m) > 0 THEN m[Len(m)].tabId ELSE Null
\* variant: lastConnectedTabId is not recomputed
RemoveConnectedTabResumeKeepsLast(s, tabId) == s
RemoveConnectedTabResume(s, tabId) ==
  IF s.last = tabId THEN [s EXCEPT !.last = LastKey(s.active)] ELSE s

\* activeConnections.delete(tabId); a for-of iterator parked past the entry
\* steps back with it, as a Map iterator does
StepBack(t, i) ==
  IF t.pc = "disconnectAll" /\ t.idx >= i THEN [t EXCEPT !.idx = @ - 1] ELSE t
ActiveDelete(s, tabId) ==
  IF Has(s.active, tabId)
  THEN LET i == IndexOf(s.active, tabId)
       IN [s EXCEPT !.active = RemoveAt(@, i),
                    !.tasks = BagOfAll(LAMBDA t : StepBack(t, i), @)]
  ELSE s
ActiveClear(s) ==
  [s EXCEPT !.active = <<>>,
            !.tasks = BagOfAll(LAMBDA t : IF t.pc = "disconnectAll"
                                          THEN [t EXCEPT !.idx = 0] ELSE t, @)]

\* this._activeConnections.set(tabId, connection)
ActiveSet(s, tabId, connection) ==
  [s EXCEPT !.active = MapSet(@, tabId, ActiveRec(tabId, connection)),
            !.tasks = BagOfAll(LAMBDA t : IF t.pc = "disconnectAll"
                                          THEN [t EXCEPT !.seen = @ \cup {connection}]
                                          ELSE t, @)]

RemoveTask(tabId) == Task("removeConnectedTab", Null, tabId, 0, TRUE, "")

\* the onclose installed by _connectTab
ActiveOnClose(s, tabId) ==
  Park(RemoveConnectedTabCall(ActiveDelete(s, tabId), tabId), RemoveTask(tabId))

\* RelayConnection._onClose: the first close fires the installed onclose, once;
\* the callback of a closed link is never called again and is dropped here
RelayOnClose(s, l) ==
  IF s.links[l].closed THEN s
  ELSE LET s1 == Emit([s EXCEPT !.links[l] = [closed |-> TRUE, onclose |-> "none", key |-> Null]],
                      Eff("onclose", Null, l, ""))
       IN CASE s.links[l].onclose = "pending" -> PendingOnClose(s1, s.links[l].key)
            [] s.links[l].onclose = "active" -> ActiveOnClose(s1, s.links[l].key)
            [] OTHER -> s1

\* RelayConnection.close(reason)
RelayClose(s, l, reason) == RelayOnClose(Emit(s, Eff("close", Null, l, reason)), l)

\* ---- _connectToRelay ----------------------------------------------------
\* this._pendingTabSelection.set(selectorTabId, { connection })
PendingSet(s, selectorTabId, connection) ==
  [s EXCEPT !.pending = MapSet(@, selectorTabId, PendingRec(selectorTabId, connection, FALSE))]

\* the socket opened: new RelayConnection, onclose installed, entry stored
ConnectToRelayOpened(s, selectorTabId, connection) ==
  LET s1 == [s EXCEPT !.links[connection] =
                 [closed |-> FALSE, onclose |-> "pending", key |-> selectorTabId]]
      s2 == PendingSet(s1, selectorTabId, connection)
  IN Observe(Respond(s2, Null, "success"),
             Ev("connectToRelay", "opened", selectorTabId, Null, connection,
                Get(s.pending, selectorTabId).connection))

\* the socket failed or timed out: the error is rethrown to the dispatcher
ConnectToRelayFailed(s, selectorTabId) ==
  Observe(Respond(s, Null, "Failed to connect to MCP relay"),
          Ev("connectToRelay", "failed", selectorTabId, Null, Null, Null))

\* ---- _connectTab --------------------------------------------------------
CatchTask(tabId, error) == Task("connectTabCatch", Null, tabId, 0, TRUE, error)

\* catch (error) { await this._removeConnectedTab(tabId); ... throw error }
ConnectTabCatch(s, selectorTabId, tabId, error) ==
  Park(RemoveConnectedTabCall(s, tabId), CatchTask(tabId, error))

\* variant: the promoted link's pending entry is left in place
ConnectTabPromoteKeepsPending(s, selectorTabId, tabId, pendingConnection) ==
  LET s2 == [s EXCEPT !.links[pendingConnection].onclose = "active",
                      !.links[pendingConnection].key = tabId]
      s3 == [ActiveSet(s2, tabId, pendingConnection) EXCEPT !.last = tabId]
  IN Park(AddConnectedTab(s3, tabId),
          Task("connectTabBind", Null, tabId, 0, tabId \notin s.closed, ""))

\* lines 140-157: bind the pending link to the tab and make it active
ConnectTabPromote(s, selectorTabId, tabId, pendingConnection) ==
  LET s1 == [s EXCEPT !.pending = MapDelete(@, selectorTabId)]
      s2 == [s1 EXCEPT !.links[pendingConnection].onclose = "active",
                       !.links[pendingConnection].key = tabId]
      s3 == [ActiveSet(s2, tabId, pendingConnection) EXCEPT !.last = tabId]
  IN Park(AddConnectedTab(s3, tabId),
          Task("connectTabBind", Null, tabId, 0, tabId \notin s.closed, ""))

\* lines 137-157, entered directly or when the eviction's badge call completes
ConnectTabBind(s, selectorTabId, tabId, existing) ==
  LET pendingConnection == Get(s.pending, selectorTabId).connection
  IN IF pendingConnection = Null
     THEN Observe(ConnectTabCatch(s, selectorTabId, tabId, "No active MCP relay connection"),
                  Ev("connectTab", "nopending", selectorTabId, tabId, Null, existing))
     ELSE Observe(ConnectTabPromote(s, selectorTabId, tabId, pendingConnection),
                  Ev("connectTab", "bound", selectorTabId, tabId, pendingConnection, existing))

\* lines 127-135: close and delete the tab's present connection, clear its badge
ConnectTabEvict(s, tabId, existingConnection) ==
  UpdateBadge(ActiveDelete(RelayClose(s, existingConnection,
                                      "New connection requested for this tab"),
                           tabId),
              tabId, "")

ConnectTabCall(s, selectorTabId, tabId) ==
  LET existingConnection == Get(s.active, tabId).connection
  IN IF existingConnection # Null
     THEN Observe(Park(ConnectTabEvict(s, tabId, existingConnection),
                       Task("connectTabEvict", selectorTabId, tabId, 0, TRUE, "")),
                  Ev("connectTab", "evict", selectorTabId, tabId, Null, existingConnection))
     ELSE ConnectTabBind(s, selectorTabId, tabId, Null)

\* Promise.all settled: resolve, or reject into the catch block
ConnectTabSettled(s, t, ok) ==
  IF ok
  THEN Observe(Respond(s, t.tabId, "success"),
               Ev("connectTab", "resolved", Null, t.tabId, Null, Null))
  ELSE Observe(ConnectTabCatch(s, Null, t.tabId, "host call failed"),
               Ev("connectTab", "rejected", Null, t.tabId, Null, Null))

\* variant: the caught error is swallowed and the call answers success
ConnectTabThrownSwallowed(s, t) ==
  Observe(Respond(RemoveConnectedTabResume(s, t.tabId), t.tabId, "success"),
          Ev("connectTab", "thrown", Null, t.tabId, Null, Null))

\* the catch block after its await: rethrow, answered by the dispatcher
ConnectTabThrown(s, t) ==
  Observe(Respond(RemoveConnectedTabResume(s, t.tabId), Null, t.error),
          Ev("connectTab", "thrown", Null, t.tabId, Null, Null))

\* ---- _disconnect --------------------------------------------------------
\* variant: the badge is cleared whether or not the tab has a connection
DisconnectCallAlwaysBadge(s, tabId) ==
  LET connection == Get(s.active, tabId).connection
  IN IF connection # Null
     THEN Observe(Park(RemoveConnectedTabCall(
                         ActiveDelete(RelayClose(s, connection, "User disconnected"), tabId),
                         tabId),
                       Task("disconnect", Null, tabId, 0, TRUE, "")),
                  Ev("disconnect", "evict", Null, tabId, connection, Null))
     ELSE Observe(Respond(RemoveConnectedTabCall(s, tabId), Null, "success"),
                  Ev("disconnect", "absent", Null, tabId, Null, Null))

DisconnectCall(s, tabId) ==
  LET connection == Get(s.active, tabId).connection
  IN IF connection # Null
     THEN Observe(Park(RemoveConnectedTabCall(
                         ActiveDelete(RelayClose(s, connection, "User disconnected"), tabId),
                         tabId),
                       Task("disconnect", Null, tabId, 0, TRUE, "")),
                  Ev("disconnect", "evict", Null, tabId, connection, Null))
     ELSE Observe(Respond(s, Null, "success"),
                  Ev("disconnect", "absent", Null, tabId, Null, Null))

DisconnectDone(s, t) ==
  Observe(Respond(RemoveConnectedTabResume(s, t.tabId), Null, "success"),
          Ev("disconnect", "done", Null, t.tabId, Null, Null))

\* the for-of loop from the iterator's position `idx` to its next await, or
\* to the end of the handler
DisconnectAllLoop(s, idx, seen) ==
  IF idx < Len(s.active)
  THEN LET entry == s.active[idx + 1]
           s1 == Park(s, [Task("disconnectAll", Null, entry.tabId, idx + 1, TRUE, "")
                            EXCEPT !.seen = seen])
       IN Observe(RemoveConnectedTabCall(
                    RelayClose(s1, entry.connection, "User disconnected"), entry.tabId),
                  Ev("disconnectAll", "visit", Null, entry.tabId, entry.connection, Null))
  ELSE Observe(Respond([ActiveClear(s) EXCEPT !.last = Null], Null, "success"),
               Ev("disconnectAll", "done", Null, Null, Null, Null))

DisconnectAllResume(s, t) ==
  DisconnectAllLoop(RemoveConnectedTabResume(s, t.tabId), t.idx, t.seen)

\* ---- tab lifecycle events -------------------------------------------------
\* variant: a closed tab's pending entry is removed without closing its link
OnTabRemovedPendingLeak(s, tabId) ==
  LET pendingConnection == Get(s.pending, tabId).connection
      activeConnection == Get(s.active, tabId).connection
  IN IF pendingConnection # Null
     THEN Observe([s EXCEPT !.pending = MapDelete(@, tabId)],
                  Ev("tabRemoved", "pending", Null, tabId, pendingConnection, Null))
     ELSE IF activeConnection # Null
     THEN Observe(Park(RemoveConnectedTabCall(
                         ActiveDelete(RelayClose(s, activeConnection, "Browser tab closed"),
                                      tabId),
                         tabId),
                       RemoveTask(tabId)),
                  Ev("tabRemoved", "active", Null, tabId, activeConnection, Null))
     ELSE Observe(s, Ev("tabRemoved", "none", Null, tabId, Null, Null))

OnTabRemoved(s, tabId) ==
  LET pendingConnection == Get(s.pending, tabId).connection
      activeConnection == Get(s.active, tabId).connection
  IN IF pendingConnection # Null
     THEN Observe(RelayClose([s EXCEPT !.pending = MapDelete(@, tabId)],
                             pendingConnection, "Browser tab closed"),
                  Ev("tabRemoved", "pending", Null, tabId, pendingConnection, Null))
     ELSE IF activeConnection # Null
     THEN Observe(Park(RemoveConnectedTabCall(
                         ActiveDelete(RelayClose(s, activeConnection, "Browser tab closed"),
                                      tabId),
                         tabId),
                       RemoveTask(tabId)),
                  Ev("tabRemoved", "active", Null, tabId, activeConnection, Null))
     ELSE Observe(s, Ev("tabRemoved", "none", Null, tabId, Null, Null))

TimerOf(pending) == [tabId |-> pending.tabId, connection |-> pending.connection]

\* the for-of loop of _onTabActivated from the i-th pending entry on
RECURSIVE ActivatedLoop(_, _, _)
ActivatedLoop(s, focused, i) ==
  IF i > Len(s.pending) THEN s
  ELSE LET pending == s.pending[i]
       IN IF pending.tabId = focused
          THEN ActivatedLoop(
                 IF pending.timerId
                 THEN [s EXCEPT !.timers = @ \ {TimerOf(pending)},
                                !.pending[i].timerId = FALSE]
                 ELSE s,
                 focused, i + 1)
          ELSE IF ~pending.timerId
          THEN [s EXCEPT !.timers = @ \cup {TimerOf(pending)},
                         !.pending[i].timerId = TRUE]
          ELSE ActivatedLoop(s, focused, i + 1)

OnTabActivated(s, focused) ==
  Observe(ActivatedLoop(s, focused, 1),
          Ev("tabActivated", "", Null, focused, Null, Null))

\* the setTimeout callback armed by _onTabActivated
OnTimer(s, timer) ==
  LET existed == Has(s.pending, timer.tabId)
      s1 == [s EXCEPT !.timers = @ \ {timer},
                      !.pending = MapDelete(@, timer.tabId)]
  IN Observe(IF existed
             THEN Emit(RelayClose(s1, timer.connection, "Tab has been inactive for 5 seconds"),
                       Eff("sendMessage", timer.tabId, Null, "connectionTimeout"))
             ELSE s1,
             Ev("timer", IF existed THEN "existed" ELSE "gone", Null, timer.tabId,
                timer.connection, Get(s.pending, timer.tabId).connection))

OnTabUpdated(s, tabId) ==
  Observe(IF Has(s.active, tabId) THEN AddConnectedTab(s, tabId) ELSE s,
          Ev("tabUpdated", "", Null, tabId, Null, Null))

\* the relay end closes the socket: ws.onclose
OnSocketClosed(s, l) ==
  Observe(RelayOnClose(s, l), Ev("socketClosed", s.links[l].onclose, Null, s.links[l].key, l, Null))

RemoveConnectedTabDone(s, t) ==
  Observe(RemoveConnectedTabResume(s, t.tabId),
          Ev("removeConnectedTab", "done", Null, t.tabId, Null, Null))

\* getConnectionStatus and getAllConnections
ConnectedTabIds == [i \in 1..Len(activeConnections) |-> activeConnections[i].tabId]

\* ---- the state machine ----------------------------------------------------
NoLink == [closed |-> FALSE, onclose |-> "none", key |-> Null]

Init ==
  /\ closedTabs = {}
  /\ nextLink = 0
  /\ links = [l \in Links |-> NoLink]
  /\ pendingTabSelection = <<>>
  /\ activeConnections = <<>>
  /\ lastConnectedTabId = Null
  /\ timers = {}
  /\ badge = [t \in Tabs |-> ""]
  /\ tasks = EmptyBag

\* a handler step ends: its writes become the state; a step that would park
\* more than max handlers is not taken
CommitWithin(s, max) ==
  /\ BagCardinality(s.tasks) <=
       (IF BagCardinality(tasks) > max THEN BagCardinality(tasks) ELSE max)
  /\ links' = s.links
  /\ pendingTabSelection' = s.pending
  /\ activeConnections' = s.active
  /\ lastConnectedTabId' = s.last
  /\ timers' = s.timers
  /\ badge' = s.badge
  /\ tasks' = s.tasks

Commit(s) == CommitWithin(s, MaxTasks)

Parked(pc) == {t \in BagToSet(tasks) : t.pc = pc}

\* ---- the result of each handler step in the present state -----------------
RelayOpenedStep(sel) == ConnectToRelayOpened(St, sel, nextLink + 1)
ConnectTabStep(sel, tabId) == ConnectTabCall(St, sel, tabId)
ConnectTabEvictedStep(t) == ConnectTabBind(Unpark(St, t), t.sel, t.tabId, Null)
ConnectTabAwaitedStep(t, ok) == ConnectTabSettled(Unpark(St, t), t, ok)
ConnectTabRethrowStep(t) == ConnectTabThrown(Unpark(St, t), t)
DisconnectStep(tabId) == DisconnectCall(St, tabId)
DisconnectAwaitedStep(t) == DisconnectDone(Unpark(St, t), t)
DisconnectAllStep == DisconnectAllLoop(St, 0, MapValues(activeConnections))
DisconnectAllAwaitedStep(t) == DisconnectAllResume(Unpark(St, t), t)
\* the host has dropped the tab, and its badge, when onRemoved is delivered
TabRemovedStep(tabId) ==
  OnTabRemoved([St EXCEPT !.closed = @ \cup {tabId}, !.badge[tabId] = ""], tabId)
TabActivatedStep(tabId) == OnTabActivated(St, tabId)
TimerFiredStep(timer) == OnTimer(St, timer)
SocketClosedStep(l) == OnSocketClosed(St, l)
RemoveConnectedTabAwaitedStep(t) == RemoveConnectedTabDone(Unpark(St, t), t)

\* _connectToRelay touches the broker only after its one await (the socket
\* opening), so it is one step, taken when the socket settles; the tab that
\* asked may have closed since
RelayOpenedUpTo(max) ==
  \E sel \in Tabs :
    /\ nextLink < max
    /\ nextLink' = nextLink + 1
    /\ Commit(RelayOpenedStep(sel))
    /\ UNCHANGED closedTabs

RelayOpened == RelayOpenedUpTo(MaxLinks)

RelayFailed ==
  \E sel \in Tabs :
    /\ Commit(ConnectToRelayFailed(St, sel))
    /\ UNCHANGED <<closedTabs, nextLink>>

\* connectToTab from an open tab; an omitted message.tabId stands for the
\* sender's own tab, which is one of the values of tabId here
ConnectTabWithin(max) ==
  \E sel \in Tabs \ closedTabs, tabId \in Tabs :
    /\ CommitWithin(ConnectTabStep(sel, tabId), max)
    /\ UNCHANGED <<closedTabs, nextLink>>

ConnectTab == ConnectTabWithin(MaxTasks)

ConnectTabEvicted ==
  \E t \in Parked("connectTabEvict") :
    /\ Commit(ConnectTabEvictedStep(t))
    /\ UNCHANGED <<closedTabs, nextLink>>

\* chrome.tabs.update rejects for a tab that was gone when it was issued;
\* otherwise either host call may succeed or fail (the window may be gone)
ConnectTabAwaited ==
  \E t \in Parked("connectTabBind"), ok \in BOOLEAN :
    /\ ok => t.hostOk
    /\ Commit(ConnectTabAwaitedStep(t, ok))
    /\ UNCHANGED <<closedTabs, nextLink>>

ConnectTabRethrow ==
  \E t \in Parked("connectTabCatch") :
    /\ Commit(ConnectTabRethrowStep(t))
    /\ UNCHANGED <<closedTabs, nextLink>>

Disconnect ==
  \E tabId \in Tabs :
    /\ Commit(DisconnectStep(tabId))
    /\ UNCHANGED <<closedTabs, nextLink>>

DisconnectAwaited ==
  \E t \in Parked("disconnect") :
    /\ Commit(DisconnectAwaitedStep(t))
    /\ UNCHANGED <<closedTabs, nextLink>>

DisconnectAllWithin(max) ==
  /\ CommitWithin(DisconnectAllStep, max)
  /\ UNCHANGED <<closedTabs, nextLink>>

DisconnectAll == DisconnectAllWithin(MaxTasks)

DisconnectAllAwaitedWithin(max) ==
  \E t \in Parked("disconnectAll") :
    /\ CommitWithin(DisconnectAllAwaitedStep(t), max)
    /\ UNCHANGED <<closedTabs, nextLink>>

DisconnectAllAwaited == DisconnectAllAwaitedWithin(MaxTasks)

TabRemoved ==
  \E tabId \in Tabs \ closedTabs :
    /\ closedTabs' = closedTabs \cup {tabId}
    /\ Commit(TabRemovedStep(tabId))
    /\ UNCHANGED nextLink

\* the focused tab may be any open tab; at most MaxTimers timers are armed
\* at once
TabActivated ==
  \E tabId \in (Tabs \ closedTabs) \cup {Elsewhere} :
    /\ Cardinality(TabActivatedStep(tabId).timers) <= MaxTimers
    /\ Commit(TabActivatedStep(tabId))
    /\ UNCHANGED <<closedTabs, nextLink>>

TabUpdated ==
  \E tabId \in Tabs \ closedTabs :
    /\ Commit(OnTabUpdated(St, tabId))
    /\ UNCHANGED <<closedTabs, nextLink>>

TimerFired ==
  \E timer \in timers :
    /\ Commit(TimerFiredStep(timer))
    /\ UNCHANGED <<closedTabs, nextLink>>

SocketClosed ==
  \E l \in 1..nextLink :
    /\ ~links[l].closed
    /\ Commit(SocketClosedStep(l))
    /\ UNCHANGED <<closedTabs, nextLink>>

RemoveConnectedTabAwaited ==
  \E t \in Parked("removeConnectedTab") :
    /\ Commit(RemoveConnectedTabAwaitedStep(t))
    /\ UNCHANGED <<closedTabs, nextLink>>

Next ==
  \/ RelayOpened
  \/ RelayFailed
  \/ ConnectTab
  \/ ConnectTabEvicted
  \/ ConnectTabAwaited
  \/ ConnectTabRethrow
  \/ Disconnect
  \/ DisconnectAwaited
  \/ DisconnectAll
  \/ DisconnectAllAwaited
  \/ TabRemoved
  \/ TabActivated
  \/ TabUpdated
  \/ TimerFired
  \/ SocketClosed
  \/ RemoveConnectedTabAwaited

Spec == Init /\ [][Next]_vars

\* The broker driven by requests alone (connectToMCPRelay, connectToTab,
\* disconnect without tabId) with one more link: the runs of the extension in
\* which no tab closes or changes focus and no relay hangs up.
RaceRelayOpened == RelayOpenedUpTo(RaceLinks)
RaceConnectTab == ConnectTabWithin(RaceTasks)
RaceDisconnectAll == DisconnectAllWithin(RaceTasks)
RaceDisconnectAllAwaited == DisconnectAllAwaitedWithin(RaceTasks)

RaceNext ==
  \/ RaceRelayOpened
  \/ RaceConnectTab
  \/ ConnectTabEvicted
  \/ ConnectTabAwaited
  \/ ConnectTabRethrow
  \/ RaceDisconnectAll
  \/ RaceDisconnectAllAwaited
  \/ RemoveConnectedTabAwaited

RaceSpec == Init /\ [][RaceNext]_vars

\* ---- properties -----------------------------------------------------------
Count(m, l) == Cardinality({i \in 1..Len(m) : m[i].connection = l})
TabsOrNone(m) == Keys(m) \cup {Null}
Success(tabId) == Eff("sendResponse", tabId, Null, "success")
Failure(error) == Eff("sendResponse", Null, Null, error)
Issued(s, e) == \E i \in 1..Len(s.out) : s.out[i] = e
Quiescent == tasks = EmptyBag

\* C1: between handler steps every relay link is held by at most one entry of
\* the pending and active maps together, and a closed link by none.
C1_LinkInOneMap ==
  \A l \in Links :
    /\ Count(pendingTabSelection, l) + Count(activeConnections, l) <= 1
    /\ links[l].closed =>
         Count(pendingTabSelection, l) + Count(activeConnections, l) = 0

\* a link has been promoted to the active map while another one was closed
C1_Witness ==
  /\ \E l \in Links : links[l].closed
  /\ \E l \in Links : Count(activeConnections, l) = 1 /\ links[l].onclose = "active"

\* C2: two bind-tabs for one target tab, each with its own pending link: the
\* one that finds the tab bound closes that link, whose close notification
\* fires, and removes its entry before it suspends; and whenever a bind-tab
\* inserts its link, the link the tab was bound to until then has been closed
\* and the tab is left with exactly one entry, holding the inserted link.
C2_EvictBeforeRebind ==
  /\ \A sel \in Tabs \ closedTabs, tabId \in Tabs :
       LET s == ConnectTabStep(sel, tabId)
       IN s.ev.phase = "evict" =>
            /\ s.links[s.ev.existing].closed
            /\ Issued(s, Eff("onclose", Null, s.ev.existing, ""))
            /\ ~Has(s.active, tabId)
  /\ \A t \in Parked("connectTabEvict") :
       LET s == ConnectTabEvictedStep(t)
           first == Get(activeConnections, t.tabId).connection
       IN s.ev.phase = "bound" =>
            /\ Cardinality({i \in 1..Len(s.active) : s.active[i].tabId = t.tabId}) = 1
            /\ Get(s.active, t.tabId).connection = s.ev.conn
            /\ first # Null => s.links[first].closed

Bound(s, sel, tabId, l) ==
  /\ s.ev.phase = "bound"
  /\ Has(s.active, tabId)
  /\ Get(s.active, tabId).connection = l
  /\ ~Has(s.pending, sel)
  /\ tabId \notin closedTabs => s.badge[tabId] = "ok"
  /\ \E t \in BagToSet(s.tasks) : t.pc = "connectTabBind" /\ t.tabId = tabId

NoPendingConnection == "No active MCP relay connection"

\* what holds when bind-tab has found no pending entry: the error is on its
\* way to the dispatcher and the call has put no link into the active map
Refused(s, tabId) ==
  /\ s.ev.phase = "nopending"
  /\ BagIn(CatchTask(tabId, NoPendingConnection), s.tasks)
  /\ s.active = activeConnections

\* C4: a bind-tab whose selector tab has no pending entry when the call
\* reaches its pending check fails with the NoPendingConnection error, which
\* the dispatcher answers as a failure carrying that message, and the call
\* inserts no link into the active map.
C4_NoPendingConnection ==
  /\ \A sel \in Tabs \ closedTabs, tabId \in Tabs :
       ~Has(pendingTabSelection, sel) =>
         LET s == ConnectTabStep(sel, tabId)
         IN IF Has(activeConnections, tabId)
            THEN s.ev.phase = "evict" /\ s.active = MapDelete(activeConnections, tabId)
            ELSE Refused(s, tabId)
  /\ \A t \in Parked("connectTabEvict") :
       ~Has(pendingTabSelection, t.sel) => Refused(ConnectTabEvictedStep(t), t.tabId)
  /\ \A t \in Parked("connectTabCatch") :
       LET s == ConnectTabRethrowStep(t)
       IN /\ s.out = <<Failure(t.error)>>
          /\ s.active = activeConnections

\* a bind-tab lost its pending entry while it was suspended, and another
\* one is already carrying the NoPendingConnection error to the dispatcher
C4_Witness ==
  /\ \E t \in Parked("connectTabEvict") : ~Has(pendingTabSelection, t.sel)
  /\ \E t \in Parked("connectTabCatch") : t.error = NoPendingConnection

\* C5: after a tab-activated event reporting B, every pending selection of
\* another tab A has its inactivity timer armed, and that timer's firing
\* removes A's entry, closes its link and sends A connectionTimeout, however
\* many selections are pending.
C5_TimeoutArmed ==
  \A focused \in (Tabs \ closedTabs) \cup {Elsewhere} :
    LET s == TabActivatedStep(focused)
    IN \A i \in 1..Len(s.pending) :
         s.pending[i].tabId # focused =>
           /\ TimerOf(s.pending[i]) \in s.timers
           /\ LET u == OnTimer(s, TimerOf(s.pending[i]))
              IN /\ ~Has(u.pending, s.pending[i].tabId)
                 /\ u.links[s.pending[i].connection].closed
                 /\ Issued(u, Eff("sendMessage", s.pending[i].tabId, Null, "connectionTimeout"))

\* C6: after a tab-activated event reporting A, the pending selection on A
\* has no armed timer, whatever other entries are in the pending map.
C6_TimerCancelled ==
  \A focused \in Tabs \ closedTabs :
    LET s == TabActivatedStep(focused)
    IN \A i \in 1..Len(s.pending) :
         s.pending[i].tabId = focused =>
           /\ ~s.pending[i].timerId
           /\ TimerOf(s.pending[i]) \notin s.timers

\* lastConnectedTabId names a connected tab, or is null with none connected
Recomputed(s) == IF s.active = <<>> THEN s.last = Null ELSE s.last \in Keys(s.active)

\* C7: when the handler that removed the last connected tab's connection has
\* completed, and whenever no handler is in flight, lastConnectedTabId is
\* null or a key of the active map.
C7_LastConnectedConsistent ==
  /\ Quiescent => lastConnectedTabId \in TabsOrNone(activeConnections)
  /\ \A t \in Parked("disconnect") :
       lastConnectedTabId = t.tabId =>
         LET s == DisconnectAwaitedStep(t) IN Recomputed(s)
  /\ \A t \in Parked("removeConnectedTab") :
       lastConnectedTabId = t.tabId =>
         LET s == RemoveConnectedTabAwaitedStep(t) IN Recomputed(s)
  /\ \A t \in Parked("disconnectAll") :
       LET s == DisconnectAllAwaitedStep(t)
       IN s.ev.phase = "done" => s.last = Null /\ s.active = <<>>

\* two tabs were connected, the later one's connection is gone and the
\* pointer has moved to the remaining one
C7_Witness ==
  /\ Quiescent
  /\ nextLink = 2
  /\ Len(activeConnections) = 1
  /\ lastConnectedTabId = activeConnections[1].tabId
  /\ activeConnections[1].connection = 1
  /\ links[2].closed

\* C8: disconnect(tabId) for a tab without an active connection answers
\* success and changes nothing: no map, pointer, badge or link changes, no
\* handler is parked, and the response is the only call issued.
C8_DisconnectAbsentNoEffect ==
  \A tabId \in Tabs :
    ~Has(activeConnections, tabId) =>
      LET s == DisconnectStep(tabId)
      IN /\ s.out = <<Success(Null)>>
         /\ s.pending = pendingTabSelection
         /\ s.active = activeConnections
         /\ s.last = lastConnectedTabId
         /\ s.badge = badge
         /\ s.links = links
         /\ s.timers = timers
         /\ s.tasks = tasks

\* a tab without a connection while another tab is connected, badged and the
\* last connected one, and a selection is pending
C8_Witness ==
  /\ \E tabId \in Tabs : ~Has(activeConnections, tabId)
  /\ lastConnectedTabId # Null
  /\ Has(activeConnections, lastConnectedTabId)
  /\ badge[lastConnectedTabId] = "ok"
  /\ Len(pendingTabSelection) > 0

\* C9: when disconnect without tabId completes, every link that has been in
\* the active map since the call began is closed, the active map is empty,
\* lastConnectedTabId is null and no tab shows a badge.
C9_DisconnectAll ==
  /\ LET s == DisconnectAllStep
     IN s.ev.phase = "done" => s.active = <<>> /\ s.last = Null /\ s.out = <<Success(Null)>>
  /\ \A t \in Parked("disconnectAll") :
       LET s == DisconnectAllAwaitedStep(t)
       IN s.ev.phase = "done" =>
            /\ \A l \in t.seen : s.links[l].closed
            /\ s.active = <<>>
            /\ s.last = Null
            /\ \A tab \in Tabs : s.badge[tab] = ""
            /\ s.out = <<Success(Null)>>

\* C10: a tab-closed event for tabId removes the tab's pending entry and
\* closes its link; with no pending entry it closes the tab's active link,
\* removes the entry, clears the badge and leaves _removeConnectedTab to
\* recompute lastConnectedTabId when it was tabId; other entries stay.
C10_TabClosed ==
  /\ \A tabId \in Tabs \ closedTabs :
       LET s == TabRemovedStep(tabId)
           p == Get(pendingTabSelection, tabId).connection
           a == Get(activeConnections, tabId).connection
       IN IF p # Null
          THEN /\ s.pending = MapDelete(pendingTabSelection, tabId)
               /\ s.links[p].closed
               /\ s.active = activeConnections
          ELSE IF a # Null
          THEN /\ s.active = MapDelete(activeConnections, tabId)
               /\ s.links[a].closed
               /\ s.pending = pendingTabSelection
               /\ Issued(s, Eff("setBadgeText", tabId, Null, ""))
               /\ s.badge[tabId] = ""
               /\ BagIn(RemoveTask(tabId), s.tasks)
          ELSE /\ s.pending = pendingTabSelection
               /\ s.active = activeConnections
               /\ s.links = links
  /\ \A t \in Parked("removeConnectedTab") :
       LET s == RemoveConnectedTabAwaitedStep(t)
       IN /\ lastConnectedTabId = t.tabId => s.last = LastKey(activeConnections)
          /\ lastConnectedTabId # t.tabId => s.last = lastConnectedTabId
          /\ s.active = activeConnections /\ s.pending = pendingTabSelection

\* a connected tab was closed: its link is closed, its entry gone, and the
\* recomputation of lastConnectedTabId is still parked
C10_Witness ==
  \E t \in Parked("removeConnectedTab") :
    /\ t.tabId \in closedTabs
    /\ lastConnectedTabId = t.tabId
    /\ ~Has(activeConnections, t.tabId)
    /\ \E l \in Links : links[l].closed

\* C11: when initiate-relay succeeds for a selector tab that has a pending
\* entry, the link of that entry is closed by the time the entry is replaced,
\* so it is not left open and referenced by no map.
C11_StalePendingClosed ==
  \A sel \in Tabs :
    nextLink < MaxLinks /\ Has(pendingTabSelection, sel) =>
      LET old == Get(pendingTabSelection, sel).connection
          s == RelayOpenedStep(sel)
      IN \/ s.links[old].closed
         \/ Count(s.pending, old) + Count(s.active, old) > 0

\* C12: after a tab-activated event every pending entry of a tab other than
\* the focused one has an armed timer and the focused tab's entry has none,
\* however many entries are pending and in whatever order.
C12_FullPendingSetEvaluated ==
  \A focused \in (Tabs \ closedTabs) \cup {Elsewhere} :
    LET s == TabActivatedStep(focused)
    IN \A i \in 1..Len(s.pending) :
         /\ s.pending[i].timerId = (s.pending[i].tabId # focused)
         /\ (TimerOf(s.pending[i]) \in s.timers) = (s.pending[i].tabId # focused)

\* a resumed handler has left both maps as it found them
MapsKept(s) == s.pending = pendingTabSelection /\ s.active = activeConnections

\* C13: no handler writes the pending or the active map after resuming from
\* an await: every step that resumes a parked bind-tab, disconnect or
\* tab-closed handler leaves both maps unchanged.
C13_NoMapWriteAfterAwait ==
  /\ \A t \in Parked("connectTabEvict") : MapsKept(ConnectTabEvictedStep(t))
  /\ \A t \in Parked("connectTabBind"), ok \in BOOLEAN :
       (ok => t.hostOk) => MapsKept(ConnectTabAwaitedStep(t, ok))
  /\ \A t \in Parked("connectTabCatch") : MapsKept(ConnectTabRethrowStep(t))
  /\ \A t \in Parked("disconnect") : MapsKept(DisconnectAwaitedStep(t))
  /\ \A t \in Parked("disconnectAll") : MapsKept(DisconnectAllAwaitedStep(t))
  /\ \A t \in Parked("removeConnectedTab") : MapsKept(RemoveConnectedTabAwaitedStep(t))

\* a link that bind-tab has bound to tab and that has not been closed
BoundOpen(l, tab) ==
  ~links[l].closed /\ links[l].onclose = "active" /\ links[l].key = tab

\* C14: at most one non-closed link is bound to a given tab at any time.
C14_OneOpenLinkPerTab ==
  \A tab \in Tabs : Cardinality({l \in Links : BoundOpen(l, tab)}) <= 1

\* a bind-tab call from its bind step (result s) to its answer, in the run in
\* which its host calls fail: Promise.all rejects, the catch block, the rethrow
BindFails(s, tabId) ==
  LET b == Task("connectTabBind", Null, tabId, 0, tabId \notin s.closed, "")
      s3 == IF s.ev.phase = "bound" THEN ConnectTabSettled(Unpark(s, b), b, FALSE) ELSE s
      c == CatchTask(tabId, IF s.ev.phase = "bound" THEN "host call failed"
                            ELSE "No active MCP relay connection")
  IN ConnectTabThrown(Unpark(s3, c), c)

\* the rest of a bind-tab call that is parked at the eviction's badge call,
\* run to completion from state s
BindRunOut(s, t) ==
  BindFails(ConnectTabBind(Unpark(s, t), t.sel, t.tabId, Null), t.tabId)

\* C15: when tab T closes between two awaited steps of a bind-tab that targets
\* T (the call is parked after evicting T's connection), the active map holds
\* no entry for T once that bind-tab has run to completion.
C15_ClosedTabNotActive ==
  \A t \in Parked("connectTabEvict") :
    t.tabId \notin closedTabs =>
      ~Has(BindRunOut(TabRemovedStep(t.tabId), t).active, t.tabId)

\* the entries of the pending map that hold a link other than l
OtherPending(m, l) == {m[i] : i \in {j \in 1..Len(m) : m[j].connection # l}}

\* C16: when a link that initiate-relay created closes, its close callback
\* removes no pending entry that holds a different link.
C16_CloseKeepsOtherLink ==
  \A l \in Links :
    ~links[l].closed /\ links[l].onclose = "pending" =>
      OtherPending(pendingTabSelection, l) \subseteq
        OtherPending(SocketClosedStep(l).pending, l)

\* no timer that was started for the pending entry (sel, connection) is armed
Disarmed(s, sel, connection) ==
  [tabId |-> sel, connection |-> connection] \notin s.timers

\* C17: after bind-tab has promoted a pending entry, and after the tab-closed
\* event of a selector tab has removed its pending entry, no timer started for
\* that entry remains armed.
C17_TimerClearedOnPromoteAndClose ==
  /\ \A sel \in Tabs \ closedTabs, tabId \in Tabs :
       LET s == ConnectTabStep(sel, tabId)
       IN s.ev.phase = "bound" => Disarmed(s, sel, s.ev.conn)
  /\ \A t \in Parked("connectTabEvict") :
       LET s == ConnectTabEvictedStep(t)
       IN s.ev.phase = "bound" => Disarmed(s, t.sel, s.ev.conn)
  /\ \A tabId \in Tabs \ closedTabs :
       LET s == TabRemovedStep(tabId)
       IN s.ev.phase = "pending" => Disarmed(s, tabId, s.ev.conn)

\* C18: the firing of an inactivity timer closes no link that is in the active
\* map and removes no pending entry that holds a link other than the one the
\* timer was armed for.
C18_TimerTouchesOnlyItsEntry ==
  \A timer \in timers :
    LET s == TimerFiredStep(timer)
    IN /\ timer.connection \in MapValues(activeConnections) =>
            ~s.links[timer.connection].closed
       /\ OtherPending(pendingTabSelection, timer.connection) \subseteq
            OtherPending(s.pending, timer.connection)

\* a bind-tab call from sel for tabId, run from its first step to its answer
\* with no other handler in between, in the run in which its host calls fail
BindCall(sel, tabId) ==
  LET s == ConnectTabStep(sel, tabId)
  IN IF s.ev.phase = "evict"
     THEN BindRunOut(s, Task("connectTabEvict", sel, tabId, 0, TRUE, ""))
     ELSE BindFails(s, tabId)

\* C19: a bind-tab call that fails because its selector tab has no pending
\* entry leaves the active map as it was and closes no active connection.
C19_FailedBindKeepsActive ==
  \A sel \in Tabs \ closedTabs, tabId \in Tabs :
    ~Has(pendingTabSelection, sel) /\ Has(activeConnections, tabId) =>
      LET s == BindCall(sel, tabId)
      IN Issued(s, Failure(NoPendingConnection)) =>
           /\ s.active = activeConnections
           /\ ~s.links[Get(activeConnections, tabId).connection].closed

HostCallFailed == "host call failed"

\* C20: when bind-tab answers with an error because a host call failed, the
\* active map holds no entry for the target tab that the call inserted.
C20_FailedBindLeavesNoEntry ==
  \A sel \in Tabs \ closedTabs, tabId \in Tabs :
    Has(pendingTabSelection, sel) =>
      LET s == BindCall(sel, tabId)
      IN Issued(s, Failure(HostCallFailed)) /\ ~Issued(s, Success(tabId)) =>
           Get(s.active, tabId).connection # Get(pendingTabSelection, sel).connection


====
